---- MODULE Spec2Model ----
(***************************************************************************)
(* A model of app.py, the NYC Yellow Taxi dashboard script.                *)
(*                                                                         *)
(* Two specifications share the module:                                    *)
(*   Spec      the loader: download_file and the st.cache_data memo of     *)
(*             load_data, run by several sessions of one process;          *)
(*   SpecData  one run of the script over a raw trip table: the cleaning   *)
(*             pipeline of load_data, the sidebar, the filter and the      *)
(*             aggregates of the three tabs.                               *)
(*                                                                         *)
(* Time is counted in seconds since 2024-01-01 00:00, a Monday.            *)
(* A polars null / Python None / pandas NaN is a sentinel integer.         *)
(***************************************************************************)
EXTENDS Integers, Sequences, FiniteSets, TLC

VARIABLES
    \* ---- the loader (Spec) ----
    pc,                 \* [Sessions -> position of the session's script thread]
    memo,               \* the st.cache_data entry of load_data (NoMemo when empty)
    lock,               \* holder of the cache's compute lock, 0 when free
    files,              \* [FileNames -> Absent or the number of chunks on disk]
    cur,                \* [Sessions -> file the session's download_file works on]
    returned,           \* [Sessions -> the session's load_data() call: status and value]
    runs,               \* [Sessions -> script runs started]; MaxRuns bounds their sum
    requests,           \* [FileNames -> HTTP GETs issued]
    schema_ok,          \* whether the trip file has the expected columns
    hist,               \* history of the loader (body completions, failures, hits)
    \* ---- one script run over a table (SpecData) ----
    raw,                \* the rows of the trip parquet file
    stage,              \* position in the script
    df,                 \* the materialized table
    zones,              \* the zone lookup table
    date_range,         \* sidebar: <<start, end>> day numbers
    hour_range,         \* sidebar: <<start_hour, end_hour>>
    payment_options,    \* sidebar: the labels offered
    selected_payments,  \* sidebar: the labels selected
    filtered_df,        \* the filtered view
    top_zones,          \* tab 1
    avg_fare_hour,      \* tab 2
    payment_breakdown,  \* tab 2
    heatmap_data,       \* tab 3
    last_top,           \* history: the previous run's filtered view and top_zones
    reruns              \* script reruns so far

sysVars == <<pc, memo, lock, files, cur, returned, runs, requests, schema_ok, hist>>
dataVars == <<raw, stage, df, zones, date_range, hour_range, payment_options,
              selected_payments, filtered_df, top_zones, avg_fare_hour,
              payment_breakdown, heatmap_data, last_top, reruns>>
vars == <<sysVars, dataVars>>

----------------------------------------------------------------------------
(* Bounds of the model *)

MaxRows == 2

MaxReruns == 1

NumSessions == 2

MaxRuns == 3

NumChunks == 2

(* Sentinels *)

Null == -999

NaN == -998

----------------------------------------------------------------------------
(* Generic helpers *)

SeqMap(f(_), s) == [i \in 1..Len(s) |-> f(s[i])]

Range(s) == {s[i] : i \in 1..Len(s)}

RECURSIVE SortedSeq(_)
SortedSeq(S) ==
    IF S = {} THEN <<>>
    ELSE LET m == CHOOSE x \in S : \A y \in S : x <= y
         IN <<m>> \o SortedSeq(S \ {m})

CountIdx(s, P(_)) == Cardinality({i \in 1..Len(s) : P(s[i])})

----------------------------------------------------------------------------
(* Timestamps: polars .dt.date(), .dt.hour(), .dt.strftime("%A") *)

T(day, h, m) == ((day * 24 + h) * 60 + m) * 60

DtDate(t) == t \div 86400

DtHour(t) == (t \div 3600) % 24

DayNames == <<"Monday", "Tuesday", "Wednesday", "Thursday", "Friday",
              "Saturday", "Sunday">>

StrftimeA(t) == DayNames[(DtDate(t) % 7) + 1]

\* whole minutes, truncated towards zero
TotalMinutes(d) == IF d >= 0 THEN d \div 60 ELSE 0 - ((0 - d) \div 60)

----------------------------------------------------------------------------
(* load_data: the cleaning pipeline *)

RequiredCols(r) ==
    /\ r.tpep_pickup_datetime # Null
    /\ r.tpep_dropoff_datetime # Null
    /\ r.PULocationID # Null
    /\ r.trip_distance # Null
    /\ r.fare_amount # Null

DropNulls(t) == SelectSeq(t, RequiredCols)

\* a comparison with a null operand is null, and filter keeps only true
Gt(a, b) == a # Null /\ b # Null /\ a > b
Le(a, b) == a # Null /\ b # Null /\ a <= b
Ge(a, b) == a # Null /\ b # Null /\ a >= b

ValidTripMutant(r) ==
    /\ Gt(r.trip_distance, 0)
    /\ Le(r.trip_distance, 100)
    /\ Ge(r.fare_amount, 0)
    /\ Le(r.fare_amount, 500)
    /\ Ge(r.tpep_dropoff_datetime, r.tpep_pickup_datetime)

ValidTrip(r) ==
    /\ Gt(r.trip_distance, 0)
    /\ Le(r.trip_distance, 100)
    /\ Gt(r.fare_amount, 0)
    /\ Le(r.fare_amount, 500)
    /\ Ge(r.tpep_dropoff_datetime, r.tpep_pickup_datetime)

\* with_columns(...) followed by select(cols): trip_speed_mph is derived
\* and then not selected, tpep_dropoff_datetime is not selected either
Derive(r) ==
    [ tpep_pickup_datetime |-> r.tpep_pickup_datetime,
      fare_amount          |-> r.fare_amount,
      total_amount         |-> r.total_amount,
      PULocationID         |-> r.PULocationID,
      trip_distance        |-> r.trip_distance,
      trip_duration_minutes |->
          TotalMinutes(r.tpep_dropoff_datetime - r.tpep_pickup_datetime),
      pickup_hour          |-> DtHour(r.tpep_pickup_datetime),
      pickup_day_of_week   |-> StrftimeA(r.tpep_pickup_datetime),
      payment_type         |-> r.payment_type ]

Pipeline(t) == SeqMap(Derive, SelectSeq(DropNulls(t), ValidTrip))

----------------------------------------------------------------------------
(* The inputs: raw trip rows and the zone lookup *)

Row(p, d, pu, dist, fare, tot, pay) ==
    [ tpep_pickup_datetime  |-> p,
      tpep_dropoff_datetime |-> d,
      PULocationID          |-> pu,
      trip_distance         |-> dist,
      fare_amount           |-> fare,
      total_amount          |-> tot,
      payment_type          |-> pay ]

RowKinds ==
    << Row(T(0, 9, 0),    T(0, 9, 15),  1,    2,    10,   12,   1),
       Row(Null,          T(0, 9, 15),  1,    2,    10,   12,   1),
       Row(T(0, 9, 0),    Null,         1,    2,    10,   12,   1),
       Row(T(1, 0, 0),    T(1, 0, 0),   2,    3,    20,   25,   2),
       Row(T(0, 9, 0),    T(0, 8, 59),  1,    2,    10,   12,   1),
       Row(T(0, 9, 0),    T(0, 9, 15),  Null, 2,    10,   12,   1),
       Row(T(30, 23, 59), T(31, 0, 20) + 30, 99,   5,    30,   36,   1),
       Row(T(0, 9, 0),    T(0, 9, 15),  1,    Null, 10,   12,   1),
       Row(T(0, 9, 0),    T(0, 9, 15),  1,    0,    10,   12,   1),
       Row(T(0, 9, 30),   T(0, 12, 0),  3,    100,  400,  450,  5),
       Row(T(0, 9, 0),    T(0, 9, 15),  1,    101,  10,   12,   1),
       Row(T(0, 9, 0),    T(0, 9, 15),  1,    2,    Null, 12,   1),
       Row(T(0, 9, 0),    T(0, 9, 15),  1,    2,    0,    12,   1),
       Row(T(2, 14, 0),   T(2, 15, 0),  2,    40,   500,  510,  Null),
       Row(T(0, 9, 0),    T(0, 9, 15),  1,    2,    501,  510,  1),
       Row(T(-1, 23, 30), T(0, 0, 10),  1,    4,    15,   18,   1),
       Row(T(31, 0, 0),   T(31, 0, 30), 2,    6,    25,   30,   2),
       Row(T(0, 23, 0),   T(0, 23, 40), 4,    7,    28,   Null, 0) >>

\* tables of at most MaxRows rows, drawn in the order of RowKinds
RawTables ==
    { SeqMap(LAMBDA k : RowKinds[k], ks) :
        ks \in { s \in UNION {[1..n -> 1..Len(RowKinds)] : n \in 0..MaxRows} :
                   \A i \in 1..(Len(s) - 1) : s[i] <= s[i + 1] } }

ZoneRow(id, b, z) == [LocationID |-> id, Borough |-> b, Zone |-> z]

ZoneLookup ==
    << ZoneRow(1, "Queens", "Astoria"),
       ZoneRow(2, "Queens", "Corona"),
       ZoneRow(3, "Queens", "Corona"),
       ZoneRow(4, "Manhattan", "Midtown Center") >>

\* the zone names in ascending (string) order
ZoneNameOrder == <<"Astoria", "Corona", "Midtown Center">>

ZoneRank(z) == CHOOSE i \in 1..Len(ZoneNameOrder) : ZoneNameOrder[i] = z


----------------------------------------------------------------------------
(* Sidebar *)

jan_start == 0

jan_end == 30

DateRanges ==
    { <<a, b>> : a \in {jan_start, jan_start + 1}, b \in {jan_start, jan_end} }
        \ { <<jan_start + 1, jan_start>> }

HourRanges == { <<0, 23>>, <<0, 9>>, <<9, 23>> }

payment_map ==
    (1 :> "Credit Card") @@ (2 :> "Cash") @@ (0 :> "Void/Unknown") @@
    (4 :> "Dispute") @@ (3 :> "No Charge")

\* labels are records: a name of payment_map, or the text "ID " and the code
Named(s) == [text |-> s, arg |-> <<>>]

\* payment_map.get(i, f"ID {i}")
PaymentLabel(i) ==
    IF i \in DOMAIN payment_map THEN Named(payment_map[i])
    ELSE [text |-> "ID ", arg |-> <<i>>]

\* df["payment_type"].unique().to_list(): a null value is listed as None
PaymentIds(t) == {t[i].payment_type : i \in 1..Len(t)}

\* sorted([...]): the order of the options is not modelled
PaymentOptions(t) == {PaymentLabel(i) : i \in PaymentIds(t)}

\* [k for k, v in payment_map.items() if v in selected_payments]
SelectedIds(sel) == {k \in DOMAIN payment_map : Named(payment_map[k]) \in sel}

----------------------------------------------------------------------------
(* Filter *)

\* is_in: null for a null value, which filter drops
IsIn(x, S) == x # Null /\ x \in S

FilterPredMutant(r, dr, hr, ids) ==
    /\ DtDate(r.tpep_pickup_datetime) >= dr[1]
    /\ DtDate(r.tpep_pickup_datetime) <= dr[2]
    /\ Ge(r.pickup_hour, hr[1])
    /\ r.pickup_hour # Null /\ r.pickup_hour < hr[2]
    /\ IsIn(r.payment_type, ids)
    /\ Gt(r.trip_distance, 0) /\ Le(r.trip_distance, 100)

FilterPred(r, dr, hr, ids) ==
    /\ DtDate(r.tpep_pickup_datetime) >= dr[1]
    /\ DtDate(r.tpep_pickup_datetime) <= dr[2]
    /\ Ge(r.pickup_hour, hr[1])
    /\ Le(r.pickup_hour, hr[2])
    /\ IsIn(r.payment_type, ids)
    /\ Gt(r.trip_distance, 0) /\ Le(r.trip_distance, 100)

FilteredPolars(t, dr, hr, ids) ==
    SelectSeq(t, LAMBDA r : FilterPred(r, dr, hr, ids))

----------------------------------------------------------------------------
(* Tab 1: top_zones *)

TopN == 10

\* merge(...) is an inner join; the rows of the join that fall in zone z
MergeCount(view, zt, z) ==
    Cardinality({ij \in (1..Len(view)) \X (1..Len(zt)) :
                    /\ view[ij[1]].PULocationID = zt[ij[2]].LocationID
                    /\ zt[ij[2]].Zone = z})

\* groupby("Zone").size().reset_index(name="trip_count"): keys ascending
GroupBySize(view, zt) ==
    LET present == {z \in Range(ZoneNameOrder) : MergeCount(view, zt, z) > 0}
        ranks == SortedSeq({ZoneRank(z) : z \in present})
    IN [i \in 1..Len(ranks) |->
          [Zone |-> ZoneNameOrder[ranks[i]],
           trip_count |-> MergeCount(view, zt, ZoneNameOrder[ranks[i]])]]

Perms(n) == {p \in [1..n -> 1..n] : \A i, j \in 1..n : p[i] = p[j] => i = j}

\* sort_values("trip_count", ascending=False) sorts with kind="quicksort",
\* which is not stable: every descending arrangement is a possible outcome
SortValuesDesc(g) ==
    { [i \in 1..Len(g) |-> g[p[i]]] :
        p \in { q \in Perms(Len(g)) :
                  \A i \in 1..(Len(g) - 1) :
                      g[q[i]].trip_count >= g[q[i + 1]].trip_count } }

HeadN(s, n) == SubSeq(s, 1, IF Len(s) < n THEN Len(s) ELSE n)

TopZonesOutcomes(view, zt) ==
    {HeadN(o, TopN) : o \in SortValuesDesc(GroupBySize(view, zt))}

----------------------------------------------------------------------------
(* Tab 2: avg_fare_hour *)

RECURSIVE SumFares(_, _)
SumFares(view, h) ==
    IF view = <<>> THEN 0
    ELSE (IF Head(view).pickup_hour = h /\ Head(view).fare_amount # Null
          THEN Head(view).fare_amount ELSE 0)
         + SumFares(Tail(view), h)

FareCount(view, h) ==
    Cardinality({i \in 1..Len(view) :
                    view[i].pickup_hour = h /\ view[i].fare_amount # Null})

\* groupby("pickup_hour")["fare_amount"].mean().reset_index(): one row per
\* hour present in the view, hours ascending; a mean is the fraction
\* <<sum, count>> of the hour's fares
AvgFareHour(view) ==
    LET hours == SortedSeq({view[i].pickup_hour : i \in 1..Len(view)})
    IN [k \in 1..Len(hours) |->
          [ pickup_hour |-> hours[k],
            fare_amount |-> IF FareCount(view, hours[k]) > 0
                            THEN <<SumFares(view, hours[k]),
                                   FareCount(view, hours[k])>>
                            ELSE <<NaN, 0>> ]]

----------------------------------------------------------------------------
(* Tab 2: payment_breakdown *)

payment_map_tab2 ==
    (1 :> "Credit Card") @@ (2 :> "Cash") @@ (0 :> "Void/Unknown") @@
    (4 :> "Dispute") @@ (3 :> "No Charge")

MissingLabel == [text |-> "NaN", arg |-> <<>>]

\* a dict that lacks the key 0
MapLabelMutant(c) ==
    IF c \in DOMAIN payment_map_tab2 \ {0} THEN Named(payment_map_tab2[c])
    ELSE MissingLabel

\* Series.map(dict): a key the dict lacks maps to NaN
MapLabel(c) ==
    IF c \in DOMAIN payment_map_tab2 THEN Named(payment_map_tab2[c])
    ELSE MissingLabel

\* value_counts(normalize=True) drops missing values and divides each
\* count by the number of values counted
ValueCountsTotal(view) == CountIdx(view, LAMBDA r : r.payment_type # Null)

\* a proportion is the fraction <<count, total>>; the order of the rows
\* (by frequency) is not modelled
PaymentBreakdown(view) ==
    { [ payment_type |-> c,
        proportion |-> << CountIdx(view, LAMBDA r : r.payment_type = c),
                          ValueCountsTotal(view) >>,
        payment_type_labelled |-> MapLabel(c) ] :
        c \in PaymentIds(view) \ {Null} }

----------------------------------------------------------------------------
(* Tab 3: heatmap_data *)

day_order == <<"Monday", "Tuesday", "Wednesday", "Thursday", "Friday",
               "Saturday", "Sunday">>

\* groupby([day, hour]).size().reset_index(name="trip_count") and
\* pivot(index=day, columns=hour, values=trip_count): the index holds the
\* days present, the columns the hours present, a missing pair is NaN
Pivot(view) ==
    LET days == {view[i].pickup_day_of_week : i \in 1..Len(view)}
        hours == {view[i].pickup_hour : i \in 1..Len(view)}
        n(d, h) == CountIdx(view, LAMBDA r : r.pickup_day_of_week = d
                                             /\ r.pickup_hour = h)
    IN [ index |-> days,
         columns |-> SortedSeq(hours),
         values |-> [c \in days \X hours |->
                        IF n(c[1], c[2]) > 0 THEN n(c[1], c[2]) ELSE NaN] ]

\* reindex(order): the rows become order; a label the index lacks is a NaN row
Reindex(p, order) ==
    [ index |-> order,
      columns |-> p.columns,
      values |-> [c \in Range(order) \X Range(p.columns) |->
                     IF c[1] \in p.index THEN p.values[c] ELSE NaN] ]

FillNa(p, v) ==
    [p EXCEPT !.values = [c \in DOMAIN p.values |->
                             IF p.values[c] = NaN THEN v ELSE p.values[c]]]

HeatmapData(view) == FillNa(Reindex(Pivot(view), day_order), 0)


----------------------------------------------------------------------------
(* The loader's state: files on disk, the memo of load_data, the sessions *)

Sessions == 1..NumSessions

FileNames == {"trip", "zone"}

NoFile == [exists |-> FALSE, chunks |-> 0]

WholeFile == [exists |-> TRUE, chunks |-> NumChunks]

NoValue == [df |-> <<>>, zones |-> <<>>]

NoMemo == [present |-> FALSE, value |-> NoValue, by |-> <<0, 0>>]

NothingReturned == [status |-> "none", value |-> NoValue]

NoHist == [completed |-> 0, failed |-> {}, skipped |-> {}, entry_at_fail |-> FALSE]

\* the content of the remote trip file in Spec
RemoteTrip == <<RowKinds[1], RowKinds[9], RowKinds[4]>>

SysQuiet ==
    /\ pc = [s \in Sessions |-> "idle"]
    /\ memo = NoMemo
    /\ lock = 0
    /\ files = [f \in FileNames |-> WholeFile]
    /\ cur = [s \in Sessions |-> "trip"]
    /\ returned = [s \in Sessions |-> NothingReturned]
    /\ runs = [s \in Sessions |-> 0]
    /\ requests = [f \in FileNames |-> 0]
    /\ schema_ok = TRUE
    /\ hist = NoHist

----------------------------------------------------------------------------
(* Spec: the sessions of one process run the script's load_data() call.    *)
(* st.cache_data reads the cache, and on a miss takes the compute lock,    *)
(* reads the cache again, calls the function, writes the result and        *)
(* releases the lock; an exception leaves the function through the lock's  *)
(* with-block and the script.                                              *)

Attempt(s) == <<s, runs[s]>>

RECURSIVE RunsOf(_)
RunsOf(S) ==
    IF S = {} THEN 0
    ELSE LET s == CHOOSE x \in S : TRUE
         IN runs[s] + RunsOf(S \ {s})

InitSys ==
    /\ pc = [s \in Sessions |-> "idle"]
    /\ memo = NoMemo
    /\ lock = 0
    /\ files \in [FileNames -> {NoFile, WholeFile}]
    /\ cur = [s \in Sessions |-> "trip"]
    /\ returned = [s \in Sessions |-> NothingReturned]
    /\ runs = [s \in Sessions |-> 0]
    /\ requests = [f \in FileNames |-> 0]
    /\ schema_ok \in BOOLEAN
    /\ hist = NoHist

\* a script run starts: the module body runs down to df, zones = load_data()
StartRun(s) ==
    /\ pc[s] = "idle"
    /\ RunsOf(Sessions) < MaxRuns
    /\ runs' = [runs EXCEPT ![s] = @ + 1]
    /\ returned' = [returned EXCEPT ![s] = NothingReturned]
    /\ pc' = [pc EXCEPT ![s] = "cache_read"]
    /\ UNCHANGED <<memo, lock, files, cur, requests, schema_ok, hist>>
    /\ UNCHANGED dataVars

\* the cached function's first look at the cache, without the lock
CacheRead(s) ==
    /\ pc[s] = "cache_read"
    /\ IF memo.present
       THEN /\ returned' = [returned EXCEPT
                               ![s] = [status |-> "ok", value |-> memo.value]]
            /\ pc' = [pc EXCEPT ![s] = "render"]
       ELSE /\ pc' = [pc EXCEPT ![s] = "acquire"]
            /\ UNCHANGED returned
    /\ UNCHANGED <<memo, lock, files, cur, runs, requests, schema_ok, hist>>
    /\ UNCHANGED dataVars

AcquireLock(s) ==
    /\ pc[s] = "acquire"
    /\ lock = 0
    /\ lock' = s
    /\ pc' = [pc EXCEPT ![s] = "cache_reread"]
    /\ UNCHANGED <<memo, files, cur, returned, runs, requests, schema_ok, hist>>
    /\ UNCHANGED dataVars

\* a cached function that calls the function whenever its first look missed
CacheRereadMutant(s) ==
    /\ pc[s] = "cache_reread"
    /\ pc' = [pc EXCEPT ![s] = "dl_exists"]
    /\ cur' = [cur EXCEPT ![s] = "trip"]
    /\ returned' = [returned EXCEPT ![s].status = "running"]
    /\ UNCHANGED lock
    /\ UNCHANGED <<memo, files, runs, requests, schema_ok, hist>>
    /\ UNCHANGED dataVars

\* with the lock held the cache is read again; on a miss load_data() is
\* entered and calls download_file(trip_url, trip_file)
CacheReread(s) ==
    /\ pc[s] = "cache_reread"
    /\ IF memo.present
       THEN /\ returned' = [returned EXCEPT
                               ![s] = [status |-> "ok", value |-> memo.value]]
            /\ lock' = 0
            /\ pc' = [pc EXCEPT ![s] = "render"]
            /\ UNCHANGED cur
       ELSE /\ pc' = [pc EXCEPT ![s] = "dl_exists"]
            /\ cur' = [cur EXCEPT ![s] = "trip"]
            /\ returned' = [returned EXCEPT ![s].status = "running"]
            /\ UNCHANGED lock
    /\ UNCHANGED <<memo, files, runs, requests, schema_ok, hist>>
    /\ UNCHANGED dataVars

\* an exception that is cached as the call's result
RaiseMutant(s) ==
    /\ pc' = [pc EXCEPT ![s] = "idle"]
    /\ lock' = 0
    /\ memo' = [present |-> TRUE, value |-> returned[s].value, by |-> Attempt(s)]
    /\ returned' = [returned EXCEPT
                       ![s] = [status |-> "raised", value |-> NoValue]]
    /\ hist' = [hist EXCEPT !.failed = @ \cup {Attempt(s)},
                            !.entry_at_fail = @ \/ memo'.present]

\* an exception leaves load_data(): the lock is released, nothing is
\* written to the cache, and the script run ends with the exception
Raise(s) ==
    /\ pc' = [pc EXCEPT ![s] = "idle"]
    /\ lock' = 0
    /\ memo' = memo
    /\ returned' = [returned EXCEPT
                       ![s] = [status |-> "raised", value |-> NoValue]]
    /\ hist' = [hist EXCEPT !.failed = @ \cup {Attempt(s)},
                            !.entry_at_fail = @ \/ memo'.present]

\* download_file returns: the next statement of load_data()
AfterDownload(s) ==
    IF cur[s] = "trip"
    THEN /\ cur' = [cur EXCEPT ![s] = "zone"]
         /\ pc' = [pc EXCEPT ![s] = "dl_exists"]
    ELSE /\ pc' = [pc EXCEPT ![s] = "collect"]
         /\ UNCHANGED cur

\* a download_file that requests the file whether or not it is there
DownloadExistsMutant(s) ==
    /\ pc[s] = "dl_exists"
    /\ pc' = [pc EXCEPT ![s] = "dl_get"]
    /\ UNCHANGED <<cur, hist>>
    /\ UNCHANGED <<memo, lock, files, returned, runs, requests, schema_ok>>
    /\ UNCHANGED dataVars

\* download_file: if not destination.exists(): ... else: print(...)
DownloadExists(s) ==
    /\ pc[s] = "dl_exists"
    /\ IF files[cur[s]].exists
       THEN /\ hist' = [hist EXCEPT
                           !.skipped = @ \cup {<<Attempt(s), cur[s]>>}]
            /\ AfterDownload(s)
       ELSE /\ pc' = [pc EXCEPT ![s] = "dl_get"]
            /\ UNCHANGED <<cur, hist>>
    /\ UNCHANGED <<memo, lock, files, returned, runs, requests, schema_ok>>
    /\ UNCHANGED dataVars

\* requests.get(url, stream=True), the status check, open(destination, "wb")
DownloadGet(s) ==
    /\ pc[s] = "dl_get"
    /\ requests' = [requests EXCEPT ![cur[s]] = @ + 1]
    /\ \E status_200 \in BOOLEAN :
          IF status_200
          THEN /\ files' = [files EXCEPT
                               ![cur[s]] = [exists |-> TRUE, chunks |-> 0]]
               /\ pc' = [pc EXCEPT ![s] = "dl_write"]
               /\ UNCHANGED <<memo, lock, returned, hist>>
          ELSE /\ Raise(s)
               /\ UNCHANGED files
    /\ UNCHANGED <<cur, runs, schema_ok>>
    /\ UNCHANGED dataVars

\* one turn of the loop: f.write(chunk)
WriteChunk(s) ==
    /\ pc[s] = "dl_write"
    /\ files[cur[s]].chunks < NumChunks
    /\ files' = [files EXCEPT ![cur[s]].chunks = @ + 1]
    /\ UNCHANGED <<pc, memo, lock, cur, returned, runs, requests, schema_ok, hist>>
    /\ UNCHANGED dataVars

\* the stream is exhausted: the file is closed and download_file returns
TransferDone(s) ==
    /\ pc[s] = "dl_write"
    /\ files[cur[s]].chunks = NumChunks
    /\ AfterDownload(s)
    /\ UNCHANGED <<memo, lock, files, returned, runs, requests, schema_ok, hist>>
    /\ UNCHANGED dataVars

\* iter_content raises before the stream is exhausted: the with-block
\* closes the file, which stays as far as it was written
TransferInterrupted(s) ==
    /\ pc[s] = "dl_write"
    /\ files[cur[s]].chunks < NumChunks
    /\ Raise(s)
    /\ UNCHANGED <<files, cur, runs, requests, schema_ok>>
    /\ UNCHANGED dataVars

\* scan_parquet ... collect(): a truncated parquet file (no footer) and a
\* file without an expected column both raise
Collect(s) ==
    /\ pc[s] = "collect"
    /\ IF files["trip"] = WholeFile /\ schema_ok
       THEN /\ returned' = [returned EXCEPT
                               ![s].value.df = Pipeline(RemoteTrip)]
            /\ pc' = [pc EXCEPT ![s] = "read_zones"]
            /\ UNCHANGED <<memo, lock, hist>>
       ELSE Raise(s)
    /\ UNCHANGED <<files, cur, runs, requests, schema_ok>>
    /\ UNCHANGED dataVars

\* the rows of a csv file of which only some chunks are on disk
CsvRows(chunks) ==
    SubSeq(ZoneLookup, 1, (chunks * Len(ZoneLookup)) \div NumChunks)

\* zones = pl.read_csv(zone_path), which raises on an empty file, and
\* return df, zones
ReadZones(s) ==
    /\ pc[s] = "read_zones"
    /\ IF files["zone"].chunks > 0
       THEN /\ returned' = [returned EXCEPT
                               ![s].value.zones = CsvRows(files["zone"].chunks)]
            /\ pc' = [pc EXCEPT ![s] = "store"]
            /\ hist' = [hist EXCEPT !.completed = @ + 1]
            /\ UNCHANGED <<memo, lock>>
       ELSE Raise(s)
    /\ UNCHANGED <<files, cur, runs, requests, schema_ok>>
    /\ UNCHANGED dataVars

\* the cached function writes the result, releases the lock and returns
StoreResult(s) ==
    /\ pc[s] = "store"
    /\ memo' = [present |-> TRUE, value |-> returned[s].value, by |-> Attempt(s)]
    /\ lock' = 0
    /\ returned' = [returned EXCEPT ![s].status = "ok"]
    /\ pc' = [pc EXCEPT ![s] = "render"]
    /\ UNCHANGED <<files, cur, runs, requests, schema_ok, hist>>
    /\ UNCHANGED dataVars

\* the rest of the script (sidebar, filter, tabs) touches nothing shared
Render(s) ==
    /\ pc[s] = "render"
    /\ pc' = [pc EXCEPT ![s] = "idle"]
    /\ UNCHANGED <<memo, lock, files, cur, returned, runs, requests, schema_ok, hist>>
    /\ UNCHANGED dataVars

----------------------------------------------------------------------------
(* SpecData: one session's script over a raw trip table *)

NoHeatmap == [index |-> <<>>, columns |-> <<>>, values |-> <<>>]

NoLastTop == [valid |-> FALSE, view |-> <<>>, top |-> <<>>]

InitData ==
    /\ SysQuiet
    /\ raw \in RawTables
    /\ stage = "start"
    /\ df = <<>>
    /\ zones = <<>>
    /\ date_range = <<jan_start, jan_end>>
    /\ hour_range = <<0, 23>>
    /\ payment_options = {}
    /\ selected_payments = {}
    /\ filtered_df = <<>>
    /\ top_zones = <<>>
    /\ avg_fare_hour = <<>>
    /\ payment_breakdown = {}
    /\ heatmap_data = NoHeatmap
    /\ last_top = NoLastTop
    /\ reruns = 0

\* df, zones = load_data(), both files in place and well-formed
LoadData ==
    /\ stage = "start"
    /\ df' = Pipeline(raw)
    /\ zones' = ZoneLookup
    /\ stage' = "loaded"
    /\ UNCHANGED <<raw, date_range, hour_range, payment_options,
                   selected_payments, filtered_df, top_zones,
                   payment_breakdown, heatmap_data, last_top, reruns>>
    /\ UNCHANGED sysVars
    /\ UNCHANGED avg_fare_hour

\* the three sidebar widgets return what the user has set
Sidebar ==
    /\ stage = "loaded"
    /\ date_range' \in DateRanges
    /\ hour_range' \in HourRanges
    /\ payment_options' = PaymentOptions(df)
    /\ selected_payments' \in SUBSET PaymentOptions(df)
    /\ stage' = "sidebar"
    /\ UNCHANGED <<raw, df, zones, filtered_df, top_zones, payment_breakdown,
                   heatmap_data, last_top, reruns>>
    /\ UNCHANGED sysVars
    /\ UNCHANGED avg_fare_hour

\* filtered_polars = df.filter(...); filtered_df = filtered_polars.to_pandas()
ApplyFilters ==
    /\ stage = "sidebar"
    /\ filtered_df' = FilteredPolars(df, date_range, hour_range,
                                     SelectedIds(selected_payments))
    /\ stage' = "filtered"
    /\ UNCHANGED <<raw, df, zones, date_range, hour_range, payment_options,
                   selected_payments, top_zones, payment_breakdown,
                   heatmap_data, last_top, reruns>>
    /\ UNCHANGED sysVars
    /\ UNCHANGED avg_fare_hour

Tab1 ==
    /\ stage = "filtered"
    /\ top_zones' \in TopZonesOutcomes(filtered_df, zones)
    /\ stage' = "tab1"
    /\ UNCHANGED <<raw, df, zones, date_range, hour_range, payment_options,
                   selected_payments, filtered_df, payment_breakdown,
                   heatmap_data, last_top, reruns>>
    /\ UNCHANGED sysVars
    /\ UNCHANGED avg_fare_hour

Tab2 ==
    /\ stage = "tab1"
    /\ avg_fare_hour' = AvgFareHour(filtered_df)
    /\ payment_breakdown' = PaymentBreakdown(filtered_df)
    /\ stage' = "tab2"
    /\ UNCHANGED <<raw, df, zones, date_range, hour_range, payment_options,
                   selected_payments, filtered_df, top_zones, heatmap_data,
                   last_top, reruns>>
    /\ UNCHANGED sysVars

Tab3 ==
    /\ stage = "tab2"
    /\ heatmap_data' = HeatmapData(filtered_df)
    /\ stage' = "done"
    /\ UNCHANGED <<raw, df, zones, date_range, hour_range, payment_options,
                   selected_payments, filtered_df, top_zones,
                   payment_breakdown, last_top, reruns>>
    /\ UNCHANGED sysVars
    /\ UNCHANGED avg_fare_hour

\* a rerun of the script with the widgets as they are: load_data() returns
\* the memoized table, the sidebar the same values
Rerun ==
    /\ stage = "done"
    /\ reruns < MaxReruns
    /\ reruns' = reruns + 1
    /\ last_top' = [valid |-> TRUE, view |-> filtered_df, top |-> top_zones]
    /\ filtered_df' = <<>>
    /\ top_zones' = <<>>
    /\ avg_fare_hour' = <<>>
    /\ payment_breakdown' = {}
    /\ heatmap_data' = NoHeatmap
    /\ stage' = "sidebar"
    /\ UNCHANGED <<raw, df, zones, date_range, hour_range, payment_options,
                   selected_payments>>
    /\ UNCHANGED sysVars

NextData == LoadData \/ Sidebar \/ ApplyFilters \/ Tab1 \/ Tab2 \/ Tab3 \/ Rerun

SpecData == InitData /\ [][NextData]_vars


----------------------------------------------------------------------------
(* Properties of the script's data path, checked under SpecData *)

Loaded == stage # "start"

Filtered == stage \in {"filtered", "tab1", "tab2", "done"}

\* the checks of the cleaning stage, as the data contract words them
PassesChecks(r) ==
    /\ r.tpep_pickup_datetime # Null
    /\ r.PULocationID # Null
    /\ r.trip_distance # Null
    /\ r.fare_amount # Null
    /\ 0 < r.trip_distance /\ r.trip_distance <= 100
    /\ 0 < r.fare_amount /\ r.fare_amount <= 500
    /\ r.tpep_dropoff_datetime # Null
    /\ r.tpep_dropoff_datetime >= r.tpep_pickup_datetime
    /\ (r.tpep_pickup_datetime \div 3600) % 24 \in 0..23

\* the output row o carries the raw row r
Carries(o, r) ==
    /\ o.tpep_pickup_datetime = r.tpep_pickup_datetime
    /\ o.PULocationID = r.PULocationID
    /\ o.trip_distance = r.trip_distance
    /\ o.fare_amount = r.fare_amount
    /\ o.total_amount = r.total_amount
    /\ o.payment_type = r.payment_type
    /\ o.trip_duration_minutes * 60 <=
           r.tpep_dropoff_datetime - r.tpep_pickup_datetime
    /\ r.tpep_dropoff_datetime - r.tpep_pickup_datetime <
           (o.trip_duration_minutes + 1) * 60

\* C5: every row of the table materialized by load_data() has
\* 0 < trip_distance <= 100, 0 < fare_amount <= 500, dropoff >= pickup (a
\* duration that is not negative), pickup_hour in 0..23 and non-null pickup
\* time, pickup location, distance and fare; and a raw row is in the table
\* exactly when it passes these checks, unaltered.
C5_CleanRows ==
    Loaded =>
        /\ \A i \in 1..Len(df) :
              /\ df[i].tpep_pickup_datetime # Null
              /\ df[i].PULocationID # Null
              /\ df[i].trip_distance # Null
              /\ df[i].fare_amount # Null
              /\ 0 < df[i].trip_distance /\ df[i].trip_distance <= 100
              /\ 0 < df[i].fare_amount /\ df[i].fare_amount <= 500
              /\ df[i].trip_duration_minutes >= 0
              /\ df[i].pickup_hour \in 0..23
              /\ \E k \in 1..Len(raw) :
                    /\ Carries(df[i], raw[k])
                    /\ raw[k].tpep_dropoff_datetime >=
                           raw[k].tpep_pickup_datetime
        /\ \A k \in 1..Len(raw) :
              PassesChecks(raw[k]) <=>
                  \E i \in 1..Len(df) : Carries(df[i], raw[k])
        /\ Len(df) = CountIdx(raw, PassesChecks)

C5_Witness ==
    /\ Loaded
    /\ Len(raw) = 2
    /\ Len(df) = 1
    /\ df[1].trip_distance = 100

\* the filter criteria, as the contract words them
InCriteria(r) ==
    /\ date_range[1] <= r.tpep_pickup_datetime \div 86400
    /\ r.tpep_pickup_datetime \div 86400 <= date_range[2]
    /\ hour_range[1] <= r.pickup_hour
    /\ r.pickup_hour <= hour_range[2]
    /\ r.payment_type \in SelectedIds(selected_payments)
    /\ 0 < r.trip_distance /\ r.trip_distance <= 100

\* C6: the filtered view holds rows of the table only, a row of the table
\* is in the view exactly when its pickup date is within [start, end], its
\* pickup_hour within [start_hour, end_hour], its payment_type among the
\* selected codes and 0 < trip_distance <= 100; the table itself is as
\* load_data() made it.
C6_FilterExact ==
    Filtered =>
        /\ \A j \in 1..Len(filtered_df) : filtered_df[j] \in Range(df)
        /\ \A i \in 1..Len(df) :
              (df[i] \in Range(filtered_df)) <=> InCriteria(df[i])
        /\ Len(filtered_df) = CountIdx(df, InCriteria)
        /\ df = Pipeline(raw)

C6_Witness ==
    /\ stage = "filtered"
    /\ Len(df) = 2
    /\ Len(filtered_df) = 1
    /\ hour_range = <<0, 9>>
    /\ filtered_df[1].pickup_hour = 9

\* C7: with the hour range (0, 23), the full date range and every offered
\* payment type selected, a table whose rows are all within the date bounds
\* and carry a payment type comes through the filter whole.
C7_MaximalFilterNoOp ==
    ( /\ Filtered
      /\ hour_range = <<0, 23>>
      /\ date_range = <<jan_start, jan_end>>
      /\ selected_payments = payment_options
      /\ \A i \in 1..Len(df) :
            /\ DtDate(df[i].tpep_pickup_datetime) \in jan_start..jan_end
            /\ df[i].payment_type # Null )
    => Len(filtered_df) = Len(df)

AllHours == [h \in 1..24 |-> h - 1]

\* C8: the day-by-hour cross-tab has the 7 rows Monday..Sunday, the 24
\* columns 0..23, and 0 in every cell whose weekday and hour have no trips.
C8_CrossTabShape ==
    stage = "done" =>
        /\ heatmap_data.index =
              <<"Monday", "Tuesday", "Wednesday", "Thursday", "Friday",
                "Saturday", "Sunday">>
        /\ heatmap_data.columns = AllHours
        /\ \A c \in DOMAIN heatmap_data.values :
              (~ \E i \in 1..Len(filtered_df) :
                    /\ filtered_df[i].pickup_day_of_week = c[1]
                    /\ filtered_df[i].pickup_hour = c[2])
              => heatmap_data.values[c] = 0

RECURSIVE SumCounts(_)
SumCounts(S) ==
    IF S = {} THEN 0
    ELSE LET x == CHOOSE y \in S : TRUE
         IN x.proportion[1] + SumCounts(S \ {x})

\* the label the contract gives a payment code
ContractLabel(c) ==
    CASE c = 0 -> Named("Void/Unknown")
      [] c = 1 -> Named("Credit Card")
      [] c = 2 -> Named("Cash")
      [] c = 3 -> Named("No Charge")
      [] c = 4 -> Named("Dispute")
      [] OTHER -> [text |-> "ID ", arg |-> <<c>>]

----------------------------------------------------------------------------
(* The loader's specification and its properties *)

DataQuiet ==
    /\ raw = RemoteTrip
    /\ stage = "start"
    /\ df = <<>>
    /\ zones = <<>>
    /\ date_range = <<jan_start, jan_end>>
    /\ hour_range = <<0, 23>>
    /\ payment_options = {}
    /\ selected_payments = {}
    /\ filtered_df = <<>>
    /\ top_zones = <<>>
    /\ avg_fare_hour = <<>>
    /\ payment_breakdown = {}
    /\ heatmap_data = NoHeatmap
    /\ last_top = NoLastTop
    /\ reruns = 0

Init == InitSys /\ DataQuiet

Next ==
    \E s \in Sessions :
        \/ StartRun(s)
        \/ CacheRead(s)
        \/ AcquireLock(s)
        \/ CacheReread(s)
        \/ DownloadExists(s)
        \/ DownloadGet(s)
        \/ WriteChunk(s)
        \/ TransferDone(s)
        \/ TransferInterrupted(s)
        \/ Collect(s)
        \/ ReadZones(s)
        \/ StoreResult(s)
        \/ Render(s)

Spec == Init /\ [][Next]_vars

InBody(s) ==
    pc[s] \in {"dl_exists", "dl_get", "dl_write", "collect", "read_zones"}

\* C1: once a download_file call has failed, the destination is either
\* absent or complete: outside a transfer in progress no partial file is on
\* disk for a later call to take as a cache hit.
C1_NoPartialFileLeft ==
    \A f \in FileNames :
        (\A s \in Sessions : ~(pc[s] = "dl_write" /\ cur[s] = f))
        => (~files[f].exists \/ files[f].chunks = NumChunks)

\* C2: over all the load_data() calls of the process the pipeline body
\* completes at most once; once a result is memoized no call is inside the
\* body, and every call that returned has the memoized pair.
C2_PipelineOnce ==
    /\ hist.completed <= 1
    /\ memo.present =>
          /\ hist.completed = 1
          /\ \A s \in Sessions : ~InBody(s) /\ pc[s] # "store"
    /\ \A s \in Sessions :
          returned[s].status = "ok" =>
              memo.present /\ returned[s].value = memo.value

C2_Witness ==
    /\ memo.present
    /\ \E s \in Sessions :
          /\ memo.by[1] # s
          /\ returned[s].status = "ok"
          /\ hist.failed = {}
          /\ requests["trip"] = 1

\* C3: a load_data() call that fails writes nothing to the cache: the cache
\* holds no entry when the failure leaves the call, no entry is ever the
\* work of a failed call, the failed call's script has the exception, and
\* every value a call returned is the memoized one of a call that succeeded.
C3_FailedLoadNotCached ==
    /\ ~hist.entry_at_fail
    /\ memo.present => memo.by \notin hist.failed
    /\ \A s \in Sessions :
          /\ Attempt(s) \in hist.failed =>
                returned[s] = [status |-> "raised", value |-> NoValue]
                /\ pc[s] = "idle"
          /\ returned[s].status = "ok" =>
                /\ memo.present
                /\ returned[s].value = memo.value
                /\ memo.by \notin hist.failed

C3_Witness ==
    /\ memo.present
    /\ \E s, t \in Sessions :
          /\ returned[s].status = "raised"
          /\ returned[t].status = "ok"
    /\ Cardinality(hist.failed) >= 2

\* C4: a download_file call that finds its destination in place issues no
\* request and leaves the files as they are; a request is issued only for a
\* destination that is absent.
C4_ExistingFileNoOp ==
    [][ \A s \in Sessions :
          /\ ( /\ pc[s] = "dl_exists"
               /\ files[cur[s]].exists
               /\ (pc'[s] # pc[s] \/ cur'[s] # cur[s]) )
             => /\ requests' = requests
                /\ files' = files
                /\ pc'[s] # "dl_get"
          /\ (pc[s] = "dl_get" /\ requests'[cur[s]] # requests[cur[s]])
             => ~files[cur[s]].exists ]_vars

C4_Witness ==
    \E s \in Sessions :
        /\ <<Attempt(s), "trip">> \in hist.skipped
        /\ requests["trip"] = 0
        /\ files["trip"] = WholeFile
        /\ requests["zone"] = 1

----------------------------------------------------------------------------
(* The mean fare by hour, checked under SpecData *)

\* C11: the mean-fare-by-hour result has an entry for each of the 24 hours
\* 0..23, in which an hour with rows holds the arithmetic mean of its
\* rows' fare_amount and an hour with no rows is present and undefined.
C11_MeanFareAllHours ==
    stage \in {"tab2", "done"} =>
        /\ [k \in 1..Len(avg_fare_hour) |-> avg_fare_hour[k].pickup_hour]
              = AllHours
        /\ \A k \in 1..Len(avg_fare_hour) :
              LET h == avg_fare_hour[k].pickup_hour
                  rows == {i \in 1..Len(filtered_df) :
                              filtered_df[i].pickup_hour = h}
              IN IF rows = {}
                 THEN avg_fare_hour[k].fare_amount = <<NaN, 0>>
                 ELSE /\ avg_fare_hour[k].fare_amount[2] = Cardinality(rows)
                      /\ avg_fare_hour[k].fare_amount[1] =
                            SumFares(filtered_df, h)

============================================================================
